---- MODULE Spec2Model ----
(***************************************************************************)
(* Marketplace backend (src/app.py): the schema-migration runner init_db   *)
(* and the product workflow (create_product, delete_product,               *)
(* list_products) over the SQLite store and the uploads directory.         *)
(***************************************************************************)
EXTENDS Integers, Sequences, FiniteSets, TLC

\* ------------------------------------------------------------------ bounds
MaxRuns == 3
MaxCrashes == 1
MaxFaults == 1

\* ----------------------------------------------------------------- helpers
Range(s) == {s[i] : i \in DOMAIN s}

IsPrefix(s, t) == Len(s) <= Len(t) /\ \A i \in 1..Len(s) : s[i] = t[i]

\* ------------------------------------------------------- migration runner
VARIABLES
    schema,     \* schema objects that exist in marketplace.db
    ledger,     \* rows of schema_migrations, in insertion order
    init,       \* where init_db stands: [k |-> step index, at |-> position, j |-> statement]
    ierr,       \* the exception that ended the last run of init_db, or "none"
    runs,       \* how many times the process was started
    crashes,    \* how many times the process was killed inside init_db
    appliedNow, \* versions whose fn() was entered during the current run
    doneRuns,   \* runs of init_db that returned normally
    gap         \* a kill fell between a step's DDL and its ledger INSERT

mvars == <<schema, ledger, init, ierr, runs, crashes, appliedNow, doneRuns, gap>>

\* ------------------------------------------------ store, uploads, requests
VARIABLES
    sellers,        \* rows of sellers; the id of a row is its index
    products,       \* committed rows of products
    product_images, \* committed rows of product_images
    productSeq,     \* sqlite_sequence of products (AUTOINCREMENT)
    imageSeq,       \* sqlite_sequence of product_images
    files,          \* the uploads directory: filename -> content
    session,        \* the seller id in each client's session cookie, 0 for none
    cl,             \* the request each client has in flight
    lock,           \* the connection holding an open write transaction, or "free"
    faults          \* failures of the disk (OSError) the run may still meet

svars ==
    <<sellers, products, product_images, productSeq, imageSeq, files, session, cl, lock,
      faults>>

\* the calls apply(1, ..) .. apply(4, ..) as written
StepList == <<1, 2, 3, 4>>

FullSchema ==
    {"schema_migrations", "products", "sellers", "idx_sellers_whatsapp",
     "products.seller_id", "idx_products_seller_id", "product_images",
     "idx_product_images_product_id"}

Ok(s) == [err |-> "none", schema |-> s]
Fail(e, s) == [err |-> e, schema |-> s]

\* CREATE TABLE IF NOT EXISTS t (a foreign key to a missing table is accepted)
CreateTable(t, s) == Ok(s \cup {t})

\* CREATE [UNIQUE] INDEX IF NOT EXISTS idx ON t(col)
CreateIndex(idx, needs, s) ==
    IF needs \subseteq s THEN Ok(s \cup {idx}) ELSE Fail("OperationalError", s)

\* ALTER TABLE products ADD COLUMN seller_id INTEGER
AlterAddSellerId(s) ==
    IF "products" \notin s \/ "products.seller_id" \in s
    THEN Fail("OperationalError", s)
    ELSE Ok(s \cup {"products.seller_id"})

AddSellerIdAlways(s) == AlterAddSellerId(s)

\* PRAGMA table_info(products); ALTER only if the column is not there
AddSellerIdIfAbsent(s) ==
    IF "products.seller_id" \in s THEN Ok(s) ELSE AlterAddSellerId(s)

migration_v1 == <<"create_products">>
migration_v2 == <<"create_sellers", "index_sellers_whatsapp">>
migration_v3 == <<"add_seller_id", "index_products_seller_id">>
migration_v4 == <<"create_product_images", "index_product_images_product_id">>

Migration(v) ==
    CASE v = 1 -> migration_v1
      [] v = 2 -> migration_v2
      [] v = 3 -> migration_v3
      [] v = 4 -> migration_v4

ExecuteNothing(stmt, s) == Ok(s)
Execute(stmt, s) ==
    CASE stmt = "create_schema_migrations" -> CreateTable("schema_migrations", s)
      [] stmt = "create_products" -> CreateTable("products", s)
      [] stmt = "create_sellers" -> CreateTable("sellers", s)
      [] stmt = "index_sellers_whatsapp" ->
            CreateIndex("idx_sellers_whatsapp", {"sellers"}, s)
      [] stmt = "add_seller_id" -> AddSellerIdIfAbsent(s)
      [] stmt = "index_products_seller_id" ->
            CreateIndex("idx_products_seller_id", {"products", "products.seller_id"}, s)
      [] stmt = "create_product_images" -> CreateTable("product_images", s)
      [] stmt = "index_product_images_product_id" ->
            CreateIndex("idx_product_images_product_id", {"product_images"}, s)

\* applied_versions()
applied_versions == Range(ledger)

\* the gate of apply(): TRUE when the step is skipped
GateAlways(v) == FALSE
IsApplied(v) == v \in applied_versions

\* the version init_db hands to its k-th call of apply
StepAt(k) == StepList[k]

At(k, a, j) == [k |-> k, at |-> a, j |-> j]
AfterStep(k) == IF k = Len(StepList) THEN At(0, "done", 0) ELSE At(k + 1, "gate", 0)

\* an exception inside fn() leaves apply() and init_db (finally: db.close())
\* and ends the process before app.run
SkipFailed(k) == AfterStep(k)
Abort(k) == At(k, "failed", 0)

Running == init.at \in {"begin", "gate", "fn", "record"}
ServingAlways == TRUE
Serving == init.at = "done"

\* lines 35-47: the uploads directory, the connection, the ledger table
InitBegin ==
    /\ init.at = "begin"
    /\ schema' = Execute("create_schema_migrations", schema).schema
    /\ init' = At(1, "gate", 0)
    /\ UNCHANGED <<ledger, ierr, runs, crashes, appliedNow, doneRuns, gap>>
    /\ UNCHANGED svars

\* lines 54-55: apply() returns at once for a recorded version
ApplyGate ==
    /\ init.at = "gate"
    /\ IF IsApplied(StepAt(init.k))
       THEN /\ init' = AfterStep(init.k)
            /\ doneRuns' = IF init.k = Len(StepList) THEN doneRuns + 1 ELSE doneRuns
            /\ UNCHANGED appliedNow
       ELSE /\ init' = At(init.k, "fn", 1)
            /\ appliedNow' = appliedNow \cup {StepAt(init.k)}
            /\ UNCHANGED doneRuns
    /\ UNCHANGED <<schema, ledger, ierr, runs, crashes, gap>>
    /\ UNCHANGED svars

\* line 56: one statement of fn(); DDL runs outside a transaction and is durable at once
MigrationStmt ==
    /\ init.at = "fn"
    /\ LET m == Migration(StepAt(init.k))
           r == Execute(m[init.j], schema)
       IN  IF r.err # "none"
           THEN /\ init' = Abort(init.k)
                /\ ierr' = r.err
                /\ UNCHANGED schema
           ELSE /\ schema' = r.schema
                /\ init' = IF init.j = Len(m) THEN At(init.k, "record", 0)
                                              ELSE At(init.k, "fn", init.j + 1)
                /\ UNCHANGED ierr
    /\ UNCHANGED <<ledger, runs, crashes, appliedNow, doneRuns, gap>>
    /\ UNCHANGED svars

\* lines 40-58: a statement of init_db (the CREATE TABLE of the ledger, the
\* SELECT of applied_versions, a statement of fn(), the INSERT of the version
\* or a commit) fails for a reason of the environment (another process holds
\* the database past the busy timeout, disk full): sqlite3.OperationalError;
\* the statement applies nothing and db.close() drops an INSERT not committed
MigrationFault ==
    /\ Running
    /\ faults > 0
    /\ faults' = faults - 1
    /\ init' = Abort(init.k)
    /\ ierr' = "OperationalError"
    /\ UNCHANGED <<schema, ledger, runs, crashes, appliedNow, doneRuns, gap>>
    /\ UNCHANGED <<sellers, products, product_images, productSeq, imageSeq, files,
                   session, cl, lock>>

\* lines 57-58: INSERT INTO schema_migrations (version is the primary key); commit
RecordApplied ==
    /\ init.at = "record"
    /\ LET v == StepAt(init.k)
       IN  IF v \in Range(ledger)
           THEN /\ init' = At(init.k, "failed", 0)
                /\ ierr' = "IntegrityError"
                /\ UNCHANGED <<ledger, doneRuns>>
           ELSE /\ ledger' = Append(ledger, v)
                /\ init' = AfterStep(init.k)
                /\ doneRuns' = IF init.k = Len(StepList) THEN doneRuns + 1 ELSE doneRuns
                /\ UNCHANGED ierr
    /\ UNCHANGED <<schema, runs, crashes, appliedNow, gap>>
    /\ UNCHANGED svars

\* the process is killed inside init_db; what was committed stays
InitCrash ==
    /\ Running
    /\ crashes < MaxCrashes
    /\ crashes' = crashes + 1
    /\ gap' = (gap \/ init.at = "record")
    /\ init' = At(0, "down", 0)
    /\ UNCHANGED <<schema, ledger, ierr, runs, appliedNow, doneRuns>>
    /\ UNCHANGED svars

\* lines 522-524: the process starts again and calls init_db
StartAgain ==
    /\ init.at \in {"down", "failed", "done"}
    /\ runs < MaxRuns
    /\ runs' = runs + 1
    /\ init' = At(0, "begin", 0)
    /\ ierr' = "none"
    /\ appliedNow' = {}
    /\ UNCHANGED <<schema, ledger, crashes, doneRuns, gap>>
    /\ UNCHANGED svars


\* ------------------------------------------------------------ the sellers
Clients == {"c1", "c2"}

\* a character is a one-character string; a character that has no ASCII
\* literal is written by its code point, "U+0663" for ARABIC-INDIC DIGIT THREE

\* the characters str.isspace() holds for (Unicode 14, CPython 3.11)
Whitespace ==
    {"\t", "\n", "U+000B", "\f", "\r", "U+001C", "U+001D", "U+001E", "U+001F", " ", "U+0085",
     "U+00A0", "U+1680", "U+2000", "U+2001", "U+2002", "U+2003", "U+2004", "U+2005", "U+2006",
     "U+2007", "U+2008", "U+2009", "U+200A", "U+2028", "U+2029", "U+202F", "U+205F", "U+3000"}

\* the characters str.isdecimal() holds for, by the digit they stand for:
\* DecimalChars[d + 1] are the characters of value d
DecimalChars ==
    <<{"0", "U+0660", "U+06F0", "U+07C0", "U+0966", "U+09E6", "U+0A66", "U+0AE6", "U+0B66",
       "U+0BE6", "U+0C66", "U+0CE6", "U+0D66", "U+0DE6", "U+0E50", "U+0ED0", "U+0F20", "U+1040",
       "U+1090", "U+17E0", "U+1810", "U+1946", "U+19D0", "U+1A80", "U+1A90", "U+1B50", "U+1BB0",
       "U+1C40", "U+1C50", "U+A620", "U+A8D0", "U+A900", "U+A9D0", "U+A9F0", "U+AA50", "U+ABF0",
       "U+FF10", "U+104A0", "U+10D30", "U+11066", "U+110F0", "U+11136", "U+111D0", "U+112F0",
       "U+11450", "U+114D0", "U+11650", "U+116C0", "U+11730", "U+118E0", "U+11950", "U+11C50",
       "U+11D50", "U+11DA0", "U+16A60", "U+16AC0", "U+16B50", "U+1D7CE", "U+1D7D8", "U+1D7E2",
       "U+1D7EC", "U+1D7F6", "U+1E140", "U+1E2F0", "U+1E950", "U+1FBF0"},
      {"1", "U+0661", "U+06F1", "U+07C1", "U+0967", "U+09E7", "U+0A67", "U+0AE7", "U+0B67",
       "U+0BE7", "U+0C67", "U+0CE7", "U+0D67", "U+0DE7", "U+0E51", "U+0ED1", "U+0F21", "U+1041",
       "U+1091", "U+17E1", "U+1811", "U+1947", "U+19D1", "U+1A81", "U+1A91", "U+1B51", "U+1BB1",
       "U+1C41", "U+1C51", "U+A621", "U+A8D1", "U+A901", "U+A9D1", "U+A9F1", "U+AA51", "U+ABF1",
       "U+FF11", "U+104A1", "U+10D31", "U+11067", "U+110F1", "U+11137", "U+111D1", "U+112F1",
       "U+11451", "U+114D1", "U+11651", "U+116C1", "U+11731", "U+118E1", "U+11951", "U+11C51",
       "U+11D51", "U+11DA1", "U+16A61", "U+16AC1", "U+16B51", "U+1D7CF", "U+1D7D9", "U+1D7E3",
       "U+1D7ED", "U+1D7F7", "U+1E141", "U+1E2F1", "U+1E951", "U+1FBF1"},
      {"2", "U+0662", "U+06F2", "U+07C2", "U+0968", "U+09E8", "U+0A68", "U+0AE8", "U+0B68",
       "U+0BE8", "U+0C68", "U+0CE8", "U+0D68", "U+0DE8", "U+0E52", "U+0ED2", "U+0F22", "U+1042",
       "U+1092", "U+17E2", "U+1812", "U+1948", "U+19D2", "U+1A82", "U+1A92", "U+1B52", "U+1BB2",
       "U+1C42", "U+1C52", "U+A622", "U+A8D2", "U+A902", "U+A9D2", "U+A9F2", "U+AA52", "U+ABF2",
       "U+FF12", "U+104A2", "U+10D32", "U+11068", "U+110F2", "U+11138", "U+111D2", "U+112F2",
       "U+11452", "U+114D2", "U+11652", "U+116C2", "U+11732", "U+118E2", "U+11952", "U+11C52",
       "U+11D52", "U+11DA2", "U+16A62", "U+16AC2", "U+16B52", "U+1D7D0", "U+1D7DA", "U+1D7E4",
       "U+1D7EE", "U+1D7F8", "U+1E142", "U+1E2F2", "U+1E952", "U+1FBF2"},
      {"3", "U+0663", "U+06F3", "U+07C3", "U+0969", "U+09E9", "U+0A69", "U+0AE9", "U+0B69",
       "U+0BE9", "U+0C69", "U+0CE9", "U+0D69", "U+0DE9", "U+0E53", "U+0ED3", "U+0F23", "U+1043",
       "U+1093", "U+17E3", "U+1813", "U+1949", "U+19D3", "U+1A83", "U+1A93", "U+1B53", "U+1BB3",
       "U+1C43", "U+1C53", "U+A623", "U+A8D3", "U+A903", "U+A9D3", "U+A9F3", "U+AA53", "U+ABF3",
       "U+FF13", "U+104A3", "U+10D33", "U+11069", "U+110F3", "U+11139", "U+111D3", "U+112F3",
       "U+11453", "U+114D3", "U+11653", "U+116C3", "U+11733", "U+118E3", "U+11953", "U+11C53",
       "U+11D53", "U+11DA3", "U+16A63", "U+16AC3", "U+16B53", "U+1D7D1", "U+1D7DB", "U+1D7E5",
       "U+1D7EF", "U+1D7F9", "U+1E143", "U+1E2F3", "U+1E953", "U+1FBF3"},
      {"4", "U+0664", "U+06F4", "U+07C4", "U+096A", "U+09EA", "U+0A6A", "U+0AEA", "U+0B6A",
       "U+0BEA", "U+0C6A", "U+0CEA", "U+0D6A", "U+0DEA", "U+0E54", "U+0ED4", "U+0F24", "U+1044",
       "U+1094", "U+17E4", "U+1814", "U+194A", "U+19D4", "U+1A84", "U+1A94", "U+1B54", "U+1BB4",
       "U+1C44", "U+1C54", "U+A624", "U+A8D4", "U+A904", "U+A9D4", "U+A9F4", "U+AA54", "U+ABF4",
       "U+FF14", "U+104A4", "U+10D34", "U+1106A", "U+110F4", "U+1113A", "U+111D4", "U+112F4",
       "U+11454", "U+114D4", "U+11654", "U+116C4", "U+11734", "U+118E4", "U+11954", "U+11C54",
       "U+11D54", "U+11DA4", "U+16A64", "U+16AC4", "U+16B54", "U+1D7D2", "U+1D7DC", "U+1D7E6",
       "U+1D7F0", "U+1D7FA", "U+1E144", "U+1E2F4", "U+1E954", "U+1FBF4"},
      {"5", "U+0665", "U+06F5", "U+07C5", "U+096B", "U+09EB", "U+0A6B", "U+0AEB", "U+0B6B",
       "U+0BEB", "U+0C6B", "U+0CEB", "U+0D6B", "U+0DEB", "U+0E55", "U+0ED5", "U+0F25", "U+1045",
       "U+1095", "U+17E5", "U+1815", "U+194B", "U+19D5", "U+1A85", "U+1A95", "U+1B55", "U+1BB5",
       "U+1C45", "U+1C55", "U+A625", "U+A8D5", "U+A905", "U+A9D5", "U+A9F5", "U+AA55", "U+ABF5",
       "U+FF15", "U+104A5", "U+10D35", "U+1106B", "U+110F5", "U+1113B", "U+111D5", "U+112F5",
       "U+11455", "U+114D5", "U+11655", "U+116C5", "U+11735", "U+118E5", "U+11955", "U+11C55",
       "U+11D55", "U+11DA5", "U+16A65", "U+16AC5", "U+16B55", "U+1D7D3", "U+1D7DD", "U+1D7E7",
       "U+1D7F1", "U+1D7FB", "U+1E145", "U+1E2F5", "U+1E955", "U+1FBF5"},
      {"6", "U+0666", "U+06F6", "U+07C6", "U+096C", "U+09EC", "U+0A6C", "U+0AEC", "U+0B6C",
       "U+0BEC", "U+0C6C", "U+0CEC", "U+0D6C", "U+0DEC", "U+0E56", "U+0ED6", "U+0F26", "U+1046",
       "U+1096", "U+17E6", "U+1816", "U+194C", "U+19D6", "U+1A86", "U+1A96", "U+1B56", "U+1BB6",
       "U+1C46", "U+1C56", "U+A626", "U+A8D6", "U+A906", "U+A9D6", "U+A9F6", "U+AA56", "U+ABF6",
       "U+FF16", "U+104A6", "U+10D36", "U+1106C", "U+110F6", "U+1113C", "U+111D6", "U+112F6",
       "U+11456", "U+114D6", "U+11656", "U+116C6", "U+11736", "U+118E6", "U+11956", "U+11C56",
       "U+11D56", "U+11DA6", "U+16A66", "U+16AC6", "U+16B56", "U+1D7D4", "U+1D7DE", "U+1D7E8",
       "U+1D7F2", "U+1D7FC", "U+1E146", "U+1E2F6", "U+1E956", "U+1FBF6"},
      {"7", "U+0667", "U+06F7", "U+07C7", "U+096D", "U+09ED", "U+0A6D", "U+0AED", "U+0B6D",
       "U+0BED", "U+0C6D", "U+0CED", "U+0D6D", "U+0DED", "U+0E57", "U+0ED7", "U+0F27", "U+1047",
       "U+1097", "U+17E7", "U+1817", "U+194D", "U+19D7", "U+1A87", "U+1A97", "U+1B57", "U+1BB7",
       "U+1C47", "U+1C57", "U+A627", "U+A8D7", "U+A907", "U+A9D7", "U+A9F7", "U+AA57", "U+ABF7",
       "U+FF17", "U+104A7", "U+10D37", "U+1106D", "U+110F7", "U+1113D", "U+111D7", "U+112F7",
       "U+11457", "U+114D7", "U+11657", "U+116C7", "U+11737", "U+118E7", "U+11957", "U+11C57",
       "U+11D57", "U+11DA7", "U+16A67", "U+16AC7", "U+16B57", "U+1D7D5", "U+1D7DF", "U+1D7E9",
       "U+1D7F3", "U+1D7FD", "U+1E147", "U+1E2F7", "U+1E957", "U+1FBF7"},
      {"8", "U+0668", "U+06F8", "U+07C8", "U+096E", "U+09EE", "U+0A6E", "U+0AEE", "U+0B6E",
       "U+0BEE", "U+0C6E", "U+0CEE", "U+0D6E", "U+0DEE", "U+0E58", "U+0ED8", "U+0F28", "U+1048",
       "U+1098", "U+17E8", "U+1818", "U+194E", "U+19D8", "U+1A88", "U+1A98", "U+1B58", "U+1BB8",
       "U+1C48", "U+1C58", "U+A628", "U+A8D8", "U+A908", "U+A9D8", "U+A9F8", "U+AA58", "U+ABF8",
       "U+FF18", "U+104A8", "U+10D38", "U+1106E", "U+110F8", "U+1113E", "U+111D8", "U+112F8",
       "U+11458", "U+114D8", "U+11658", "U+116C8", "U+11738", "U+118E8", "U+11958", "U+11C58",
       "U+11D58", "U+11DA8", "U+16A68", "U+16AC8", "U+16B58", "U+1D7D6", "U+1D7E0", "U+1D7EA",
       "U+1D7F4", "U+1D7FE", "U+1E148", "U+1E2F8", "U+1E958", "U+1FBF8"},
      {"9", "U+0669", "U+06F9", "U+07C9", "U+096F", "U+09EF", "U+0A6F", "U+0AEF", "U+0B6F",
       "U+0BEF", "U+0C6F", "U+0CEF", "U+0D6F", "U+0DEF", "U+0E59", "U+0ED9", "U+0F29", "U+1049",
       "U+1099", "U+17E9", "U+1819", "U+194F", "U+19D9", "U+1A89", "U+1A99", "U+1B59", "U+1BB9",
       "U+1C49", "U+1C59", "U+A629", "U+A8D9", "U+A909", "U+A9D9", "U+A9F9", "U+AA59", "U+ABF9",
       "U+FF19", "U+104A9", "U+10D39", "U+1106F", "U+110F9", "U+1113F", "U+111D9", "U+112F9",
       "U+11459", "U+114D9", "U+11659", "U+116C9", "U+11739", "U+118E9", "U+11959", "U+11C59",
       "U+11D59", "U+11DA9", "U+16A69", "U+16AC9", "U+16B59", "U+1D7D7", "U+1D7E1", "U+1D7EB",
       "U+1D7F5", "U+1D7FF", "U+1E149", "U+1E2F9", "U+1E959", "U+1FBF9"}>>

\* the characters str.isdigit() holds for that are no decimals (superscripts,
\* circled digits and the like)
OtherDigits ==
    {"U+00B2", "U+00B3", "U+00B9", "U+1369", "U+136A", "U+136B", "U+136C", "U+136D", "U+136E",
     "U+136F", "U+1370", "U+1371", "U+19DA", "U+2070", "U+2074", "U+2075", "U+2076", "U+2077",
     "U+2078", "U+2079", "U+2080", "U+2081", "U+2082", "U+2083", "U+2084", "U+2085", "U+2086",
     "U+2087", "U+2088", "U+2089", "U+2460", "U+2461", "U+2462", "U+2463", "U+2464", "U+2465",
     "U+2466", "U+2467", "U+2468", "U+2474", "U+2475", "U+2476", "U+2477", "U+2478", "U+2479",
     "U+247A", "U+247B", "U+247C", "U+2488", "U+2489", "U+248A", "U+248B", "U+248C", "U+248D",
     "U+248E", "U+248F", "U+2490", "U+24EA", "U+24F5", "U+24F6", "U+24F7", "U+24F8", "U+24F9",
     "U+24FA", "U+24FB", "U+24FC", "U+24FD", "U+24FF", "U+2776", "U+2777", "U+2778", "U+2779",
     "U+277A", "U+277B", "U+277C", "U+277D", "U+277E", "U+2780", "U+2781", "U+2782", "U+2783",
     "U+2784", "U+2785", "U+2786", "U+2787", "U+2788", "U+278A", "U+278B", "U+278C", "U+278D",
     "U+278E", "U+278F", "U+2790", "U+2791", "U+2792", "U+10A40", "U+10A41", "U+10A42",
     "U+10A43", "U+10E60", "U+10E61", "U+10E62", "U+10E63", "U+10E64", "U+10E65", "U+10E66",
     "U+10E67", "U+10E68", "U+11052", "U+11053", "U+11054", "U+11055", "U+11056", "U+11057",
     "U+11058", "U+11059", "U+1105A", "U+1F100", "U+1F101", "U+1F102", "U+1F103", "U+1F104",
     "U+1F105", "U+1F106", "U+1F107", "U+1F108", "U+1F109", "U+1F10A"}

\* 2^-1075, half the least positive double: 0.d1 d2 ... d752 * 10^-323
HalfLeastDouble ==
    <<2, 4, 7, 0, 3, 2, 8, 2, 2, 9, 2, 0, 6, 2, 3, 2, 7, 2, 0, 8, 8, 2, 8, 4, 3, 9, 6, 4, 3, 4,
      1, 1, 0, 6, 8, 6, 1, 8, 2, 5, 2, 9, 9, 0, 1, 3, 0, 7, 1, 6, 2, 3, 8, 2, 2, 1, 2, 7, 9, 2,
      8, 4, 1, 2, 5, 0, 3, 3, 7, 7, 5, 3, 6, 3, 5, 1, 0, 4, 3, 7, 5, 9, 3, 2, 6, 4, 9, 9, 1, 8,
      1, 8, 0, 8, 1, 7, 9, 9, 6, 1, 8, 9, 8, 9, 8, 2, 8, 2, 3, 4, 7, 7, 2, 2, 8, 5, 8, 8, 6, 5,
      4, 6, 3, 3, 2, 8, 3, 5, 5, 1, 7, 7, 9, 6, 9, 8, 9, 8, 1, 9, 9, 3, 8, 7, 3, 9, 8, 0, 0, 5,
      3, 9, 0, 9, 3, 9, 0, 6, 3, 1, 5, 0, 3, 5, 6, 5, 9, 5, 1, 5, 5, 7, 0, 2, 2, 6, 3, 9, 2, 2,
      9, 0, 8, 5, 8, 3, 9, 2, 4, 4, 9, 1, 0, 5, 1, 8, 4, 4, 3, 5, 9, 3, 1, 8, 0, 2, 8, 4, 9, 9,
      3, 6, 5, 3, 6, 1, 5, 2, 5, 0, 0, 3, 1, 9, 3, 7, 0, 4, 5, 7, 6, 7, 8, 2, 4, 9, 2, 1, 9, 3,
      6, 5, 6, 2, 3, 6, 6, 9, 8, 6, 3, 6, 5, 8, 4, 8, 0, 7, 5, 7, 0, 0, 1, 5, 8, 5, 7, 6, 9, 2,
      6, 9, 9, 0, 3, 7, 0, 6, 3, 1, 1, 9, 2, 8, 2, 7, 9, 5, 5, 8, 5, 5, 1, 3, 3, 2, 9, 2, 7, 8,
      3, 4, 3, 3, 8, 4, 0, 9, 3, 5, 1, 9, 7, 8, 0, 1, 5, 5, 3, 1, 2, 4, 6, 5, 9, 7, 2, 6, 3, 5,
      7, 9, 5, 7, 4, 6, 2, 2, 7, 6, 6, 4, 6, 5, 2, 7, 2, 8, 2, 7, 2, 2, 0, 0, 5, 6, 3, 7, 4, 0,
      0, 6, 4, 8, 5, 4, 9, 9, 9, 7, 7, 0, 9, 6, 5, 9, 9, 4, 7, 0, 4, 5, 4, 0, 2, 0, 8, 2, 8, 1,
      6, 6, 2, 2, 6, 2, 3, 7, 8, 5, 7, 3, 9, 3, 4, 5, 0, 7, 3, 6, 3, 3, 9, 0, 0, 7, 9, 6, 7, 7,
      6, 1, 9, 3, 0, 5, 7, 7, 5, 0, 6, 7, 4, 0, 1, 7, 6, 3, 2, 4, 6, 7, 3, 6, 0, 0, 9, 6, 8, 9,
      5, 1, 3, 4, 0, 5, 3, 5, 5, 3, 7, 4, 5, 8, 5, 1, 6, 6, 6, 1, 1, 3, 4, 2, 2, 3, 7, 6, 6, 6,
      7, 8, 6, 0, 4, 1, 6, 2, 1, 5, 9, 6, 8, 0, 4, 6, 1, 9, 1, 4, 4, 6, 7, 2, 9, 1, 8, 4, 0, 3,
      0, 0, 5, 3, 0, 0, 5, 7, 5, 3, 0, 8, 4, 9, 0, 4, 8, 7, 6, 5, 3, 9, 1, 7, 1, 1, 3, 8, 6, 5,
      9, 1, 6, 4, 6, 2, 3, 9, 5, 2, 4, 9, 1, 2, 6, 2, 3, 6, 5, 3, 8, 8, 1, 8, 7, 9, 6, 3, 6, 2,
      3, 9, 3, 7, 3, 2, 8, 0, 4, 2, 3, 8, 9, 1, 0, 1, 8, 6, 7, 2, 3, 4, 8, 4, 9, 7, 6, 6, 8, 2,
      3, 5, 0, 8, 9, 8, 6, 3, 3, 8, 8, 5, 8, 7, 9, 2, 5, 6, 2, 8, 3, 0, 2, 7, 5, 5, 9, 9, 5, 6,
      5, 7, 5, 2, 4, 4, 5, 5, 5, 0, 7, 2, 5, 5, 1, 8, 9, 3, 1, 3, 6, 9, 0, 8, 3, 6, 2, 5, 4, 7,
      7, 9, 1, 8, 6, 9, 4, 8, 6, 6, 7, 9, 9, 4, 9, 6, 8, 3, 2, 4, 0, 4, 9, 7, 0, 5, 8, 2, 1, 0,
      2, 8, 5, 1, 3, 1, 8, 5, 4, 5, 1, 3, 9, 6, 2, 1, 3, 8, 3, 7, 7, 2, 2, 8, 2, 6, 1, 4, 5, 4,
      3, 7, 6, 9, 3, 4, 1, 2, 5, 3, 2, 0, 9, 8, 5, 9, 1, 3, 2, 7, 6, 6, 7, 2, 3, 6, 3, 2, 8, 1,
      2, 5>>

AsciiDigits == <<"0", "1", "2", "3", "4", "5", "6", "7", "8", "9">>

\* the characters str.isdigit() holds for
Digits == OtherDigits \cup UNION {DecimalChars[d] : d \in 1..10}

RECURSIVE LStrip(_)
LStrip(s) == IF s # <<>> /\ Head(s) \in Whitespace THEN LStrip(Tail(s)) ELSE s

RECURSIVE RStrip(_)
RStrip(s) ==
    IF s # <<>> /\ s[Len(s)] \in Whitespace THEN RStrip(SubSeq(s, 1, Len(s) - 1)) ELSE s

\* str.strip(): the whitespace at both ends is removed
Strip(s) == RStrip(LStrip(s))

IsDigit(ch) == ch \in Digits

\* str.isdigit(): every character is a digit and there is at least one
IsDigits(s) == s # <<>> /\ \A i \in DOMAIN s : IsDigit(s[i])

\* lines 137-143: strip(), then replace(" ", "") drops the ASCII spaces only
normalize_whatsapp(raw) ==
    LET s == SelectSeq(Strip(raw), LAMBDA ch : ch # " ")
    IN  IF s # <<>> /\ Head(s) = "+"
        THEN <<"+">> \o SelectSeq(Tail(s), IsDigit)
        ELSE SelectSeq(s, IsDigit)

\* generate_password_hash / check_password_hash of werkzeug
generate_password_hash(pin) == <<"hash">> \o pin
check_password_hash(h, pin) == h = generate_password_hash(pin)

NameAli == <<"A", "l", "i">>
PinA == <<"1", "2", "3", "4">>
PinB == <<"U+0669", "U+0669", "U+00B2", "U+0669">>
RawA == <<"+", "9", "2", "3", "0", "0", "1", "2", "3", "4", "5", "6", "7">>
RawB == <<"\t", "+", "9", "2", " ", "3", "0", "0", "-", "1", "2", "3", "4", "5", "6", "7", "\n">>
RawC == <<"0", "3", "0", "0", "1", "2", "3", "4", "5", "6", "7">>
RawShort == <<"1", "2", "3", "4", "5">>

\* the JSON bodies posted to /api/sellers/register
RegInputs ==
    {[name |-> NameAli, whatsapp |-> RawA, pin |-> PinA],
     [name |-> NameAli, whatsapp |-> RawB, pin |-> PinA],
     [name |-> <<"A">>, whatsapp |-> RawA, pin |-> PinA],
     [name |-> NameAli, whatsapp |-> RawShort, pin |-> PinA],
     [name |-> NameAli, whatsapp |-> RawA, pin |-> <<"1", "2">>]}

\* the JSON bodies posted to /api/sellers/login
LoginInputs ==
    {[whatsapp |-> RawB, pin |-> PinA],
     [whatsapp |-> RawA, pin |-> PinB],
     [whatsapp |-> RawC, pin |-> PinA],
     [whatsapp |-> <<>>, pin |-> PinA]}

\* a second seller with another phone and another pin
NameBea == <<"B", "e", "a">>

RegInputsTwo ==
    {[name |-> NameAli, whatsapp |-> RawA, pin |-> PinA],
     [name |-> NameBea, whatsapp |-> RawB, pin |-> PinB],
     [name |-> NameBea, whatsapp |-> RawC, pin |-> PinB]}

LoginInputsTwo ==
    {[whatsapp |-> RawB, pin |-> PinA],
     [whatsapp |-> RawC, pin |-> PinB],
     [whatsapp |-> RawC, pin |-> PinA]}

\* ---------------------------------------------------------- uploaded parts
\* a part of the multipart form: the name the client declared and what the bytes decode as
JpegA == [name |-> "a.jpg", fmt |-> "JPEG"]
PngB == [name |-> "b.jpg", fmt |-> "PNG"]
WebpC == [name |-> "c.webp", fmt |-> "WEBP"]
GifG == [name |-> "g.jpg", fmt |-> "GIF"]
JunkX == [name |-> "x.jpg", fmt |-> "NONE"]
EmptyE == [name |-> "", fmt |-> "NONE"]
JpegD == [name |-> "d.jpeg", fmt |-> "JPEG"]

\* the lists request.files.getlist("images") returns
Uploads ==
    {<<>>, <<PngB, JpegA>>, <<EmptyE, WebpC>>, <<JpegA, JunkX>>,
     <<JpegA, PngB, GifG, WebpC>>,
     <<JpegA, JpegA, JpegA, JpegA, JpegA, JpegA>>}

\* the fields of the multipart form: request.form, a field the client did not
\* post is absent
Lamp == <<" ", "L", "a", "m", "p">>
Brass == <<"B", "r", "a", "s", "s">>
Price == <<"1", "9", ".", "5", "\n">>

FormLamp == [name |-> Lamp, price |-> Price, details |-> Brass]

Forms ==
    {FormLamp,
     [name |-> <<" ", "\t">>, price |-> Price, details |-> Brass],
     [name |-> Lamp, price |-> Price, details |-> <<>>],
     [name |-> Lamp, details |-> Brass],
     [name |-> Lamp, price |-> <<>>, details |-> Brass],
     [name |-> Lamp, price |-> <<"-", "1">>, details |-> Brass],
     [name |-> Lamp, price |-> <<"N", "a", "N">>, details |-> Brass]}

\* line 415
MaxImages == 5

\* line 162
ALLOWED_IMAGE_EXTS == {".jpg", ".jpeg", ".png", ".webp"}

\* lines 165-184: Image.open raises UnidentifiedImageError, an OSError, for
\* bytes that are no image; a decoded format off the list is a ValueError
_sniff_and_get_ext(f) ==
    CASE f.fmt = "NONE" -> [exc |-> "UnidentifiedImageError", ext |-> ""]
      [] f.fmt = "JPEG" -> [exc |-> "none", ext |-> ".jpg"]
      [] f.fmt = "PNG" -> [exc |-> "none", ext |-> ".png"]
      [] f.fmt = "WEBP" -> [exc |-> "none", ext |-> ".webp"]
      [] OTHER -> [exc |-> "ValueError", ext |-> ""]

\* lines 188-190
SniffChecked(f) ==
    LET r == _sniff_and_get_ext(f)
    IN  IF r.exc = "none" /\ r.ext \notin ALLOWED_IMAGE_EXTS
        THEN [exc |-> "ValueError", ext |-> ""]
        ELSE r

\* --- float(price_raw), line 395
IsDecimal(ch) == \E d \in 1..10 : ch \in DecimalChars[d]
DecimalValue(ch) == (CHOOSE d \in 1..10 : ch \in DecimalChars[d]) - 1

\* the whitespace of C's isspace(), and the ASCII separators float() keeps
CSpace == {" ", "\t", "\n", "U+000B", "\f", "\r"}
AsciiSeparators == {"U+001C", "U+001D", "U+001E", "U+001F"}

\* float() reads a decimal of any script as its ASCII digit and a space
\* beyond ASCII as " "
AsciiOf(ch) ==
    IF IsDecimal(ch) THEN AsciiDigits[DecimalValue(ch) + 1]
    ELSE IF ch \in Whitespace \ (CSpace \cup AsciiSeparators) THEN " "
    ELSE ch

RECURSIVE TrimLeft(_)
TrimLeft(s) == IF s # <<>> /\ Head(s) \in CSpace THEN TrimLeft(Tail(s)) ELSE s

RECURSIVE TrimRight(_)
TrimRight(s) ==
    IF s # <<>> /\ s[Len(s)] \in CSpace THEN TrimRight(SubSeq(s, 1, Len(s) - 1)) ELSE s

IsAsciiDigit(ch) == \E d \in 1..10 : AsciiDigits[d] = ch
DigitValue(ch) == (CHOOSE d \in 1..10 : AsciiDigits[d] = ch) - 1

\* an underscore stands between two digits, or the text is no number
UnderscoresOk(s) ==
    \A i \in DOMAIN s :
        s[i] = "_" => /\ 1 < i /\ i < Len(s)
                      /\ IsAsciiDigit(s[i - 1])
                      /\ IsAsciiDigit(s[i + 1])

\* the letters of inf, infinity and nan, whatever their case
LowerOf(ch) ==
    CASE ch = "I" -> "i" [] ch = "N" -> "n" [] ch = "F" -> "f" [] ch = "T" -> "t"
      [] ch = "Y" -> "y" [] ch = "A" -> "a" [] OTHER -> ch

\* the number of digits of s from position i on
DigitRun(s, i) ==
    IF i > Len(s) THEN 0
    ELSE CHOOSE n \in 0..(Len(s) - i + 1) :
            /\ \A j \in i..(i + n - 1) : IsAsciiDigit(s[j])
            /\ i + n <= Len(s) => ~IsAsciiDigit(s[i + n])

\* the exponent float() gives to a text whose exponent has more than nine
\* significant digits or exceeds this value
MAX_ABS_EXP == 1100000000

LeadingZeros(s) ==
    IF \A i \in DOMAIN s : s[i] = "0" THEN Len(s)
    ELSE (CHOOSE i \in DOMAIN s : s[i] # "0" /\ \A j \in 1..(i - 1) : s[j] = "0") - 1

RECURSIVE DecimalNumber(_)
DecimalNumber(s) ==
    IF s = <<>> THEN 0
    ELSE 10 * DecimalNumber(SubSeq(s, 1, Len(s) - 1)) + DigitValue(s[Len(s)])

\* the exponent read from its digits t (leading zeros dropped): exact up to
\* nine digits, which stay below MAX_ABS_EXP
NumberOf(t) == IF Len(t) > 9 THEN MAX_ABS_EXP ELSE DecimalNumber(t)

\* the digits sig, read as 0.sig, exceed 0.half
Exceeds(sig, half) ==
    LET a(i) == IF i <= Len(sig) THEN DigitValue(sig[i]) ELSE 0
        b(i) == IF i <= Len(half) THEN half[i] ELSE 0
    IN  \E i \in 1..(Len(sig) + Len(half)) :
            a(i) > b(i) /\ \A j \in 1..(i - 1) : a(j) = b(j)

\* the double nearest to 0.sig * 10^p is not zero: ties go to the even
\* neighbour, so exactly half the least double is read as zero
RoundsToNonZero(sig, p) ==
    \/ p > -323
    \/ p = -323 /\ Exceeds(sig, HalfLeastDouble)

\* what float() returns or raises: exc is the exception, neg whether the
\* value is below zero, nan whether it is no number
Float(exc, neg, nan) == [exc |-> exc, neg |-> neg, nan |-> nan]

\* the digits of the mantissa, with z leading zeros and the point after the
\* first a of them, times 10^e
FloatValue(minus, digits, z, a, e) ==
    Float("none",
          minus /\ z < Len(digits)
                /\ RoundsToNonZero(SubSeq(digits, z + 1, Len(digits)), a - z + e),
          FALSE)

\* the exponent: m digits of s from position k on, which end the text
FloatExponent(s, minus, digits, a, k, m, sign) ==
    IF m >= 1 /\ k + m - 1 = Len(s)
    THEN FloatValue(minus, digits, LeadingZeros(digits), a,
                    sign * NumberOf(SubSeq(s, k + LeadingZeros(SubSeq(s, k, Len(s))), Len(s))))
    ELSE Float("ValueError", FALSE, FALSE)

\* what follows the mantissa at position j: nothing, or e, a sign and digits
FloatTail(s, minus, digits, a, j) ==
    IF Len(digits) = 0 THEN Float("ValueError", FALSE, FALSE)
    ELSE IF j = Len(s) + 1 THEN FloatValue(minus, digits, LeadingZeros(digits), a, 0)
    ELSE IF s[j] \notin {"e", "E"} THEN Float("ValueError", FALSE, FALSE)
    ELSE IF j < Len(s) /\ s[j + 1] \in {"+", "-"}
    THEN FloatExponent(s, minus, digits, a, j + 2, DigitRun(s, j + 2),
                       IF s[j + 1] = "-" THEN -1 ELSE 1)
    ELSE FloatExponent(s, minus, digits, a, j + 1, DigitRun(s, j + 1), 1)

\* the b digits after the point that follows the first a digits
FloatFraction(s, minus, a, b) ==
    FloatTail(s, minus, SubSeq(s, 1, a) \o SubSeq(s, a + 2, a + 1 + b), a, a + b + 2)

\* the mantissa: a digits, then a point and more digits, or nothing of it
FloatMantissa(s, minus, a) ==
    IF a < Len(s) /\ s[a + 1] = "."
    THEN FloatFraction(s, minus, a, DigitRun(s, a + 2))
    ELSE FloatTail(s, minus, SubSeq(s, 1, a), a, a + 1)

\* the text after the sign: inf, infinity or nan in any case, or a number
FloatBody(body, minus, word) ==
    IF word \in {<<"i", "n", "f">>, <<"i", "n", "f", "i", "n", "i", "t", "y">>}
    THEN Float("none", minus, FALSE)
    ELSE IF word = <<"n", "a", "n">> THEN Float("none", FALSE, TRUE)
    ELSE IF ~UnderscoresOk(body) THEN Float("ValueError", FALSE, FALSE)
    ELSE FloatMantissa(SelectSeq(body, LAMBDA ch : ch # "_"), minus,
                       DigitRun(SelectSeq(body, LAMBDA ch : ch # "_"), 1))

FloatSigned(t) ==
    IF t # <<>> /\ Head(t) \in {"+", "-"}
    THEN FloatBody(Tail(t), Head(t) = "-", [i \in DOMAIN Tail(t) |-> LowerOf(Tail(t)[i])])
    ELSE FloatBody(t, FALSE, [i \in DOMAIN t |-> LowerOf(t[i])])

\* float(s) of a str
float(raw) == FloatSigned(TrimRight(TrimLeft([i \in DOMAIN raw |-> AsciiOf(raw[i])])))

\* request.form.get(key) is None for a field the form does not carry
HasField(form, key) == key \in DOMAIN form

\* lines 390-391: (request.form.get(key) or "").strip()
StripField(form, key) == IF HasField(form, key) THEN Strip(form[key]) ELSE <<>>

\* lines 393-397: float(None) is a TypeError; price is None after either
\* exception
ParsePrice(form) ==
    IF ~HasField(form, "price") THEN [ok |-> FALSE, neg |-> FALSE, nan |-> FALSE]
    ELSE LET v == float(form.price)
         IN  [ok |-> v.exc = "none", neg |-> v.neg, nan |-> v.nan]

\* line 399, negated
ValidForm(form) ==
    /\ StripField(form, "name") # <<>>
    /\ ParsePrice(form).ok
    /\ ~ParsePrice(form).neg
    /\ StripField(form, "details") # <<>>

\* --------------------------------------------------------------- requests
MaxProducts == 2

NoName == [u |-> 0, ext |-> ""]

\* request.form of a request that posted no fields
NoForm == [key \in {} |-> <<>>]

Idle ==
    [pc |-> "idle", op |-> "none", form |-> NoForm, pid |-> 0, upload |-> <<>>, i |-> 0,
     fname |-> NoName, saved |-> <<>>, tx |-> <<>>, seller |-> <<>>, rows |-> <<>>,
     code |-> 0, err |-> "none", listing |-> <<>>, removed |-> 0]

\* the handler has returned (or raised) with this response; a transaction it
\* left open stays open until the connection is closed
Response(r, code, err) ==
    [r EXCEPT !.pc = "returned", !.code = code, !.err = err, !.fname = NoName]

LockFreeFor(c) == lock \in {"free", c}
Release(c) == IF lock = c THEN "free" ELSE lock

Max(S) == CHOOSE x \in S : \A y \in S : y <= x
Min(S) == CHOOSE x \in S : \A y \in S : x <= y

\* every filename some row, file or request refers to
KnownNames ==
    (DOMAIN files)
    \cup {r.filename : r \in product_images}
    \cup UNION {Range(cl[c].saved) : c \in Clients}
    \cup UNION {{r.filename : r \in Range(cl[c].tx)} : c \in Clients}
    \cup ({cl[c].fname : c \in Clients} \ {NoName})

\* a uuid4 no filename carries yet (the names are interchangeable: the least one)
FreshUuid ==
    Min({u \in 1..(Cardinality(KnownNames) + 1) : \A f \in KnownNames : f.u # u})

\* lines 192-198: uuid4().hex + ext, drawn again while a file of that name exists
NewNames(ext) ==
    {f \in KnownNames : f.ext = ext /\ f \notin DOMAIN files}
    \cup {[u |-> FreshUuid, ext |-> ext]}

\* the committed rows of one product, ORDER BY sort_order ASC, id ASC
Before(a, b) ==
    a.sort_order < b.sort_order \/ (a.sort_order = b.sort_order /\ a.id < b.id)

RECURSIVE SortRows(_)
SortRows(S) ==
    IF S = {} THEN <<>>
    ELSE LET first == CHOOSE a \in S : \A b \in S \ {a} : Before(a, b)
         IN  <<first>> \o SortRows(S \ {first})

\* the rows a SELECT sees: what is committed (the requests of a connection do
\* not overlap, so it has no open transaction of its own when it reads)
DirtyRows == product_images \cup UNION {Range(cl[c].tx) : c \in Clients}
CommittedRows == product_images

ImagesOf(p) ==
    LET rows == SortRows({r \in CommittedRows : r.product_id = p})
    IN  [k \in DOMAIN rows |-> rows[k].filename]

\* product ids, ORDER BY p.id DESC
RECURSIVE Descending(_)
Descending(S) ==
    IF S = {} THEN <<>> ELSE <<Max(S)>> \o Descending(S \ {Max(S)})

\* ON DELETE CASCADE with PRAGMA foreign_keys = ON
Cascade(rows, p) == {r \in rows : r.product_id # p}

\* the UNIQUE index idx_sellers_whatsapp refuses the INSERT (IntegrityError)
IndexAbsent(whatsapp) == FALSE
WhatsappTaken(whatsapp) == \E k \in DOMAIN sellers : sellers[k].whatsapp = whatsapp

\* --- POST /api/sellers/register, lines 245-279
\* the handler of POST /api/sellers/register past its INSERT
Registering(row) == [Idle EXCEPT !.pc = "commit_seller", !.op = "register", !.seller = <<row>>]

\* lines 247-270: the checks and the INSERT of line 264, which begins the
\* connection's transaction and takes the write lock; it waits for the lock of
\* another connection and raises OperationalError (database is locked) after
\* the busy timeout; refused by the index, it leaves the transaction open
Register(c, in) ==
    /\ Serving
    /\ cl[c].pc = "idle"
    /\ LET name == Strip(in.name)
           whatsapp == normalize_whatsapp(in.whatsapp)
           pin == Strip(in.pin)
       IN  IF Len(name) < 2 \/ Len(name) > 60
           THEN /\ cl' = [cl EXCEPT ![c] = Response(Idle, 400, "Invalid name")]
                /\ UNCHANGED lock
           ELSE IF whatsapp = <<>> \/ Len(whatsapp) < 10
           THEN /\ cl' = [cl EXCEPT ![c] = Response(Idle, 400, "Invalid WhatsApp")]
                /\ UNCHANGED lock
           ELSE IF ~IsDigits(pin) \/ ~(4 <= Len(pin) /\ Len(pin) <= 8)
           THEN /\ cl' = [cl EXCEPT ![c] = Response(Idle, 400, "PIN must be 4-8 digits")]
                /\ UNCHANGED lock
           ELSE IF ~LockFreeFor(c)
           THEN /\ cl' = [cl EXCEPT ![c] = Response(Idle, 500, "OperationalError")]
                /\ UNCHANGED lock
           ELSE IF WhatsappTaken(whatsapp)
           THEN /\ cl' = [cl EXCEPT ![c] = Response(Idle, 409, "Conflict")]
                /\ lock' = c
           ELSE /\ cl' = [cl EXCEPT ![c] =
                            Registering([name |-> name, whatsapp |-> whatsapp,
                                         pin_hash |-> generate_password_hash(pin)])]
                /\ lock' = c
    /\ UNCHANGED <<sellers, products, product_images, productSeq, imageSeq, files, session>>
    /\ UNCHANGED <<faults, mvars>>

\* lines 268-279: db.commit() makes the row visible and releases the lock;
\* the session takes the new seller's id
RegisterCommit(c) ==
    /\ cl[c].pc = "commit_seller"
    /\ sellers' = sellers \o cl[c].seller
    /\ session' = [session EXCEPT ![c] = Len(sellers) + 1]
    /\ lock' = Release(c)
    /\ cl' = [cl EXCEPT ![c] = Response(Idle, 201, "none")]
    /\ UNCHANGED <<products, product_images, productSeq, imageSeq, files>>
    /\ UNCHANGED <<faults, mvars>>

\* --- POST /api/sellers/login, lines 282-303
Login(c, in) ==
    /\ Serving
    /\ cl[c].pc = "idle"
    /\ LET whatsapp == normalize_whatsapp(in.whatsapp)
           pin == Strip(in.pin)
           hit == {k \in DOMAIN sellers : sellers[k].whatsapp = whatsapp}
       IN  IF whatsapp = <<>> \/ pin = <<>>
           THEN /\ cl' = [cl EXCEPT ![c] = Response(Idle, 400, "required")]
                /\ UNCHANGED session
           ELSE IF hit = {} \/ \A k \in hit : ~check_password_hash(sellers[k].pin_hash, pin)
           THEN /\ cl' = [cl EXCEPT ![c] = Response(Idle, 401, "Invalid credentials")]
                /\ UNCHANGED session
           ELSE /\ session' = [session EXCEPT ![c] = Min(hit)]
                /\ cl' = [cl EXCEPT ![c] = Response(Idle, 200, "none")]
    /\ UNCHANGED <<sellers, products, product_images, productSeq, imageSeq, files, lock>>
    /\ UNCHANGED <<faults, mvars>>

\* --- POST /api/sellers/logout, lines 306-309: session.pop("seller_id", None)
Logout(c) ==
    /\ Serving
    /\ cl[c].pc = "idle"
    /\ session' = [session EXCEPT ![c] = 0]
    /\ cl' = [cl EXCEPT ![c] = Response(Idle, 200, "none")]
    /\ UNCHANGED <<sellers, products, product_images, productSeq, imageSeq, files, lock>>
    /\ UNCHANGED <<faults, mvars>>

\* --- POST /api/products, lines 383-471
\* the handler of POST /api/products as it is entered
Posted(form, upload) == [Idle EXCEPT !.op = "create", !.form = form, !.upload = upload]

\* lines 385-416: the returns that come before any write
CreateReject(c, form, upload) ==
    /\ Serving
    /\ cl[c].pc = "idle"
    /\ \/ session[c] = 0
       \/ ~ValidForm(form)
       \/ Len(upload) > MaxImages
    /\ cl' = [cl EXCEPT ![c] =
                IF session[c] = 0
                THEN Response(Posted(form, upload), 401, "login required")
                ELSE IF ~ValidForm(form)
                THEN Response(Posted(form, upload), 400, "Invalid input")
                ELSE Response(Posted(form, upload), 400, "Max 5 images allowed")]
    /\ UNCHANGED <<sellers, products, product_images, productSeq, imageSeq, files,
                   session, lock>>
    /\ UNCHANGED <<faults, mvars>>

\* lines 418-424: INSERT INTO products begins the connection's transaction
\* and takes the write lock; the statement waits for the lock of another
\* connection and raises OperationalError after the busy timeout; a NaN price
\* is bound as NULL and fails NOT NULL, which leaves the transaction open
CreateBegin(c, form, upload) ==
    /\ Serving
    /\ cl[c].pc = "idle"
    /\ session[c] # 0
    /\ ValidForm(form)
    /\ Len(upload) <= MaxImages
    /\ IF ~LockFreeFor(c)
       THEN /\ cl' = [cl EXCEPT ![c] =
                        Response(Posted(form, upload), 500, "OperationalError")]
            /\ UNCHANGED lock
       ELSE IF ParsePrice(form).nan
       THEN /\ cl' = [cl EXCEPT ![c] = Response(Posted(form, upload), 500, "IntegrityError")]
            /\ lock' = c
       ELSE /\ productSeq < MaxProducts
            /\ cl' = [cl EXCEPT ![c] =
                        [Posted(form, upload) EXCEPT !.pc = "commit_product",
                                                     !.pid = productSeq + 1]]
            /\ lock' = c
    /\ UNCHANGED <<sellers, products, product_images, productSeq, imageSeq, files, session>>
    /\ UNCHANGED <<faults, mvars>>

\* lines 425-429: db.commit() makes the product row visible and releases the
\* lock
CreateBeginCommit(c) ==
    /\ cl[c].pc = "commit_product"
    /\ products' = products \cup {[id |-> cl[c].pid, seller_id |-> session[c]]}
    /\ productSeq' = cl[c].pid
    /\ lock' = Release(c)
    /\ cl' = [cl EXCEPT ![c].pc = "loop", ![c].i = 1]
    /\ UNCHANGED <<sellers, product_images, imageSeq, files, session>>
    /\ UNCHANGED <<faults, mvars>>

\* lines 431-434 and 188-198: the next part of the form, sniffed and named
CreateLoop(c) ==
    /\ cl[c].pc = "loop"
    /\ LET r == cl[c]
       IN  IF r.i > Len(r.upload)
           THEN cl' = [cl EXCEPT ![c].pc = "commit"]
           ELSE IF r.upload[r.i].name = ""
           THEN cl' = [cl EXCEPT ![c].i = r.i + 1]
           ELSE LET s == SniffChecked(r.upload[r.i])
                IN  IF s.exc = "ValueError"
                    THEN cl' = [cl EXCEPT ![c].pc = "rollback"]
                    ELSE IF s.exc # "none"
                    THEN cl' = [cl EXCEPT ![c] = Response(r, 500, s.exc)]
                    ELSE \E f \in NewNames(s.ext) :
                            cl' = [cl EXCEPT ![c].pc = "save", ![c].fname = f]
    /\ UNCHANGED <<sellers, products, product_images, productSeq, imageSeq, files,
                   session, lock>>
    /\ UNCHANGED <<faults, mvars>>

\* lines 200 and 435: file_storage.save(abs_path) opens the path for writing;
\* an OSError of the disk may or may not leave a file behind
CreateSave(c) ==
    /\ cl[c].pc = "save"
    /\ LET r == cl[c]
           written == [f \in (DOMAIN files) \cup {r.fname} |->
                          IF f = r.fname THEN r.upload[r.i] ELSE files[f]]
       IN  \/ /\ files' = written
              /\ cl' = [cl EXCEPT ![c].pc = "insert", ![c].fname = NoName,
                                  ![c].saved = Append(r.saved, r.fname)]
              /\ UNCHANGED faults
           \/ /\ faults > 0
              /\ faults' = faults - 1
              /\ files' \in {files, written}
              /\ cl' = [cl EXCEPT ![c] = Response(r, 500, "OSError")]
    /\ UNCHANGED <<sellers, products, product_images, productSeq, imageSeq, session, lock>>
    /\ UNCHANGED mvars

\* the sort_order of the row for the part at (1-based) position i: enumerate's index
SortOrderZero(i) == 0
SortOrder(i) == i - 1

\* lines 436-439: INSERT INTO product_images inside the connection's open
\* transaction, which holds the write lock from its first statement on; the
\* foreign key is checked by the statement
CreateInsert(c) ==
    /\ cl[c].pc = "insert"
    /\ LockFreeFor(c)
    /\ LET r == cl[c]
           row == [id |-> imageSeq + Len(r.tx) + 1, product_id |-> r.pid,
                   filename |-> r.saved[Len(r.saved)], sort_order |-> SortOrder(r.i)]
       IN  IF \E p \in products : p.id = r.pid
           THEN cl' = [cl EXCEPT ![c].pc = "loop", ![c].i = r.i + 1,
                               ![c].tx = Append(r.tx, row)]
           ELSE cl' = [cl EXCEPT ![c] = Response(r, 500, "IntegrityError")]
    /\ lock' = c
    /\ UNCHANGED <<sellers, products, product_images, productSeq, imageSeq, files, session>>
    /\ UNCHANGED <<faults, mvars>>

\* line 440: db.commit() of the image rows
CreateCommit(c) ==
    /\ cl[c].pc = "commit"
    /\ LET r == cl[c]
       IN  /\ product_images' = product_images \cup Range(r.tx)
           /\ imageSeq' = imageSeq + Len(r.tx)
           /\ lock' = Release(c)
           /\ cl' = [cl EXCEPT ![c].pc = "respond", ![c].tx = <<>>]
    /\ UNCHANGED <<sellers, products, productSeq, files, session>>
    /\ UNCHANGED <<faults, mvars>>

\* lines 452-471: the product row is read again and the response is built from
\* it and saved_filenames; dict(None) is a TypeError when the row is gone
CreateRespond(c) ==
    /\ cl[c].pc = "respond"
    /\ cl' = [cl EXCEPT ![c] =
                IF \E p \in products : p.id = cl[c].pid
                THEN Response(cl[c], 201, "none")
                ELSE Response(cl[c], 500, "TypeError")]
    /\ UNCHANGED <<sellers, products, product_images, productSeq, imageSeq, files,
                   session, lock>>
    /\ UNCHANGED <<faults, mvars>>

\* lines 441-443: the DELETE FROM products of the except branch, inside the
\* connection's transaction, which holds the write lock
CreateRollback(c) ==
    /\ cl[c].pc = "rollback"
    /\ LockFreeFor(c)
    /\ lock' = c
    /\ cl' = [cl EXCEPT ![c].pc = "commit_rollback"]
    /\ UNCHANGED <<sellers, products, product_images, productSeq, imageSeq, files, session>>
    /\ UNCHANGED <<faults, mvars>>

\* line 444: db.commit(): the product row and, by the cascade, the image rows
\* of the transaction are gone and the lock is released
CreateRollbackCommit(c) ==
    /\ cl[c].pc = "commit_rollback"
    /\ LET r == cl[c]
       IN  /\ products' = {p \in products : p.id # r.pid}
           /\ product_images' = Cascade(product_images \cup Range(r.tx), r.pid)
           /\ imageSeq' = imageSeq + Len(r.tx)
           /\ lock' = Release(c)
           /\ cl' = [cl EXCEPT ![c].pc = "cleanup", ![c].tx = <<>>]
    /\ UNCHANGED <<sellers, productSeq, files, session>>
    /\ UNCHANGED <<faults, mvars>>

\* os.remove(fn): the file is gone afterwards (a name that is no file raises
\* FileNotFoundError, an OSError)
Unlink(fn) == [f \in (DOMAIN files) \ {fn} |-> files[f]]

\* one pass of a removal loop over the names in saved (lines 374-378,
\* 445-449): os.remove of the next name, or an OSError of the environment
\* that leaves the file; the exception is ignored
RemoveNext(c) ==
    /\ cl[c].removed < Len(cl[c].saved)
    /\ \/ /\ files' = Unlink(cl[c].saved[cl[c].removed + 1])
          /\ UNCHANGED faults
       \/ /\ faults > 0
          /\ faults' = faults - 1
          /\ UNCHANGED files
    /\ cl' = [cl EXCEPT ![c].removed = cl[c].removed + 1]

\* lines 445-449: one os.remove of the loop over saved_filenames
CreateCleanup(c) ==
    /\ cl[c].pc = "cleanup"
    /\ RemoveNext(c)
    /\ UNCHANGED <<sellers, products, product_images, productSeq, imageSeq, session, lock>>
    /\ UNCHANGED mvars

\* line 450: the loop is over, 400 with the message of the ValueError
CreateRefuse(c) ==
    /\ cl[c].pc = "cleanup"
    /\ cl[c].removed = Len(cl[c].saved)
    /\ cl' = [cl EXCEPT ![c] = Response(cl[c], 400, "ValueError")]
    /\ UNCHANGED <<sellers, products, product_images, productSeq, imageSeq, files,
                   session, lock>>
    /\ UNCHANGED <<faults, mvars>>

\* a later write statement of a request (lines 370, 436, 443) waits for the
\* other connection's transaction; after the busy timeout it raises
\* OperationalError (database is locked)
Busy(c) ==
    /\ cl[c].pc \in {"insert", "rollback", "delete"}
    /\ ~LockFreeFor(c)
    /\ cl' = [cl EXCEPT ![c] = Response(cl[c], 500, "OperationalError")]
    /\ UNCHANGED <<sellers, products, product_images, productSeq, imageSeq, files,
                   session, lock>>
    /\ UNCHANGED <<faults, mvars>>

\* --- DELETE /api/products/<id>, lines 347-380
\* line 361: the row's seller_id is the seller of the session (a seller_id
\* that is NULL is no seller's)
OwnsAny(c, x) == TRUE
Owns(c, x) == x.seller_id = session[c]

\* the handler of DELETE /api/products/<p> as it is entered
Deleting(p) == [Idle EXCEPT !.op = "delete", !.pid = p]

\* lines 349-362
DeleteReject(c, p) ==
    /\ Serving
    /\ cl[c].pc = "idle"
    /\ LET row == {x \in products : x.id = p}
       IN  /\ \/ session[c] = 0
              \/ row = {}
              \/ \E x \in row : ~Owns(c, x)
           /\ cl' = [cl EXCEPT ![c] =
                        IF session[c] = 0
                        THEN Response(Deleting(p), 401, "login required")
                        ELSE IF row = {} THEN Response(Deleting(p), 404, "not found")
                        ELSE Response(Deleting(p), 403, "forbidden")]
    /\ UNCHANGED <<sellers, products, product_images, productSeq, imageSeq, files,
                   session, lock>>
    /\ UNCHANGED <<faults, mvars>>

\* lines 349-362, every check passed: the row read by the SELECT of line 354
\* belongs to the seller of the session
DeleteBegin(c, p) ==
    /\ Serving
    /\ cl[c].pc = "idle"
    /\ session[c] # 0
    /\ \E x \in products : x.id = p /\ Owns(c, x)
    /\ cl' = [cl EXCEPT ![c] = [Deleting(p) EXCEPT !.pc = "select"]]
    /\ UNCHANGED <<sellers, products, product_images, productSeq, imageSeq, files,
                   session, lock>>
    /\ UNCHANGED <<faults, mvars>>

\* lines 364-368: a second SELECT reads the filenames of the product's
\* committed rows
DeleteSelect(c) ==
    /\ cl[c].pc = "select"
    /\ cl' = [cl EXCEPT ![c].pc = "delete", ![c].saved = ImagesOf(cl[c].pid)]
    /\ UNCHANGED <<sellers, products, product_images, productSeq, imageSeq, files,
                   session, lock>>
    /\ UNCHANGED <<faults, mvars>>

\* line 370: DELETE FROM products begins the connection's transaction and
\* takes the write lock
DeleteRow(c) ==
    /\ cl[c].pc = "delete"
    /\ LockFreeFor(c)
    /\ lock' = c
    /\ cl' = [cl EXCEPT ![c].pc = "commit_delete"]
    /\ UNCHANGED <<sellers, products, product_images, productSeq, imageSeq, files, session>>
    /\ UNCHANGED <<faults, mvars>>

\* line 371: db.commit(): the product row and, by the cascade, its image
\* rows are gone and the lock is released
DeleteCommit(c) ==
    /\ cl[c].pc = "commit_delete"
    /\ products' = {p \in products : p.id # cl[c].pid}
    /\ product_images' = Cascade(product_images, cl[c].pid)
    /\ lock' = Release(c)
    /\ cl' = [cl EXCEPT ![c].pc = "unlink"]
    /\ UNCHANGED <<sellers, productSeq, imageSeq, files, session>>
    /\ UNCHANGED <<faults, mvars>>

\* lines 374-378: one os.remove of the loop over filenames
DeleteFiles(c) ==
    /\ cl[c].pc = "unlink"
    /\ RemoveNext(c)
    /\ UNCHANGED <<sellers, products, product_images, productSeq, imageSeq, session, lock>>
    /\ UNCHANGED mvars

\* line 380: the loop is over, 200 {"ok": true}
DeleteDone(c) ==
    /\ cl[c].pc = "unlink"
    /\ cl[c].removed = Len(cl[c].saved)
    /\ cl' = [cl EXCEPT ![c] = Response(cl[c], 200, "none")]
    /\ UNCHANGED <<sellers, products, product_images, productSeq, imageSeq, files,
                   session, lock>>
    /\ UNCHANGED <<faults, mvars>>

\* --- GET /api/products, lines 312-344
\* lines 316-333: the first query
ListBegin(c) ==
    /\ Serving
    /\ cl[c].pc = "idle"
    /\ cl' = [cl EXCEPT ![c] =
                [Idle EXCEPT !.pc = "list", !.op = "list",
                             !.rows = Descending({p.id : p \in products})]]
    /\ UNCHANGED <<sellers, products, product_images, productSeq, imageSeq, files,
                   session, lock>>
    /\ UNCHANGED <<faults, mvars>>

\* lines 334-344: the second query and the assembled list
ListFinish(c) ==
    /\ cl[c].pc = "list"
    /\ LET rows == cl[c].rows
       IN  cl' = [cl EXCEPT ![c] =
                    Response([cl[c] EXCEPT !.listing =
                                 [k \in DOMAIN rows |->
                                     [id |-> rows[k], images |-> ImagesOf(rows[k])]]],
                             200, "none")]
    /\ UNCHANGED <<sellers, products, product_images, productSeq, imageSeq, files,
                   session, lock>>
    /\ UNCHANGED <<faults, mvars>>

\* lines 27-31: the connection is closed, which rolls back a transaction the
\* handler left open and releases its lock; the client's next request starts
\* from a fresh handler
Return(c) ==
    /\ cl[c].pc = "returned"
    /\ cl' = [cl EXCEPT ![c] = Idle]
    /\ lock' = Release(c)
    /\ UNCHANGED <<sellers, products, product_images, productSeq, imageSeq, files, session>>
    /\ UNCHANGED <<faults, mvars>>

\* ---------------------------------------------------------- specifications
vars == <<mvars, svars>>

\* the database before the process starts: empty, or the products table of a
\* deployment older than the migrations, whose rows have no seller_id;
\* migration_v3 adds the column, NULL in those rows; the uploads directory is
\* empty and the process is starting
InitWith(budget, legacy) ==
    /\ faults = budget
    /\ schema = IF legacy = {} THEN {} ELSE {"products"}
    /\ ledger = <<>>
    /\ init = At(0, "begin", 0)
    /\ ierr = "none"
    /\ runs = 1
    /\ crashes = 0
    /\ appliedNow = {}
    /\ doneRuns = 0
    /\ gap = FALSE
    /\ sellers = <<>>
    /\ products = legacy
    /\ product_images = {}
    /\ productSeq = Cardinality(legacy)
    /\ imageSeq = 0
    /\ files = <<>>
    /\ session = [c \in Clients |-> 0]
    /\ cl = [c \in Clients |-> Idle]
    /\ lock = "free"

Init == InitWith(MaxFaults, {})

\* init_db from an empty database, killed and started again
NextMigrate ==
    \/ InitBegin
    \/ ApplyGate
    \/ MigrationStmt
    \/ RecordApplied
    \/ InitCrash
    \/ StartAgain

SpecMigrate == Init /\ [][NextMigrate]_vars

\* the process: init_db, then the requests of one browser, one at a time
Writer == "c1"
Reader == "c2"

Boot ==
    \/ InitBegin
    \/ ApplyGate
    \/ MigrationStmt
    \/ RecordApplied

Requests(c, forms, uploads) ==
    \/ \E in \in RegInputs : Register(c, in)
    \/ RegisterCommit(c)
    \/ \E in \in LoginInputs : Login(c, in)
    \/ Logout(c)
    \/ \E form \in forms, upload \in uploads :
          \/ CreateReject(c, form, upload)
          \/ CreateBegin(c, form, upload)
    \/ CreateBeginCommit(c)
    \/ CreateLoop(c)
    \/ CreateSave(c)
    \/ CreateInsert(c)
    \/ CreateCommit(c)
    \/ CreateRespond(c)
    \/ CreateRollback(c)
    \/ CreateRollbackCommit(c)
    \/ CreateCleanup(c)
    \/ CreateRefuse(c)
    \/ \E p \in 1..MaxProducts :
          \/ DeleteReject(c, p)
          \/ DeleteBegin(c, p)
    \/ DeleteSelect(c)
    \/ DeleteRow(c)
    \/ DeleteCommit(c)
    \/ DeleteFiles(c)
    \/ DeleteDone(c)

Next ==
    \/ Boot
    \/ Requests(Writer, {FormLamp}, Uploads)
    \/ ListBegin(Writer)
    \/ ListFinish(Writer)
    \/ Return(Writer)

Spec == Init /\ [][Next]_vars

\* the same, with a second browser listing the products while a request of
\* the first one is in flight
UploadsReader == {<<PngB, JpegA>>, <<JpegA, GifG>>, <<JunkX>>}

InitReader == InitWith(0, {})

NextReader ==
    \/ Boot
    \/ Requests(Writer, {FormLamp}, UploadsReader)
    \/ Return(Writer)
    \/ ListBegin(Reader)
    \/ ListFinish(Reader)
    \/ Return(Reader)

SpecReader == InitReader /\ [][NextReader]_vars

\* one browser and two sellers: registering or logging in switches the
\* session to the other seller
UploadsTwo == {<<PngB, JpegA>>, <<JpegA, GifG>>}

RequestsTwo(c) ==
    \/ \E in \in RegInputsTwo : Register(c, in)
    \/ RegisterCommit(c)
    \/ \E in \in LoginInputsTwo : Login(c, in)
    \/ Logout(c)
    \/ \E upload \in UploadsTwo :
          \/ CreateReject(c, FormLamp, upload)
          \/ CreateBegin(c, FormLamp, upload)
    \/ CreateBeginCommit(c)
    \/ CreateLoop(c)
    \/ CreateSave(c)
    \/ CreateInsert(c)
    \/ CreateCommit(c)
    \/ CreateRespond(c)
    \/ CreateRollback(c)
    \/ CreateRollbackCommit(c)
    \/ CreateCleanup(c)
    \/ CreateRefuse(c)
    \/ \E p \in 1..MaxProducts :
          \/ DeleteReject(c, p)
          \/ DeleteBegin(c, p)
    \/ DeleteSelect(c)
    \/ DeleteRow(c)
    \/ DeleteCommit(c)
    \/ DeleteFiles(c)
    \/ DeleteDone(c)
    \/ Return(c)

NextSellers ==
    \/ Boot
    \/ RequestsTwo(Writer)

InitSellers == InitWith(0, {})

SpecSellers == InitSellers /\ [][NextSellers]_vars

\* the same over the database of a deployment older than the migrations: its
\* products table holds a row, which migration_v3 leaves with seller_id NULL
NULL == 0

LegacyProducts == {[id |-> 1, seller_id |-> NULL]}

InitLegacy == InitWith(0, LegacyProducts)

SpecLegacy == InitLegacy /\ [][NextSellers]_vars

\* init_db with statements that fail, from an empty database
NextFailing ==
    \/ InitBegin
    \/ ApplyGate
    \/ MigrationStmt
    \/ MigrationFault
    \/ RecordApplied
    \/ InitCrash
    \/ StartAgain

SpecFailing == Init /\ [][NextFailing]_vars

\* the process from its start: init_db, killed and started again, and the
\* requests served by app.run once init_db has returned
UploadsStartup == {<<JpegA>>}

RegInputsStartup == {[name |-> NameAli, whatsapp |-> RawA, pin |-> PinA]}

LoginInputsStartup == {[whatsapp |-> RawB, pin |-> PinA]}

\* the process is stopped between two requests and started again
Restart ==
    /\ \A c \in Clients : cl[c].pc = "idle"
    /\ StartAgain

NextStartup ==
    \/ InitBegin
    \/ ApplyGate
    \/ MigrationStmt
    \/ RecordApplied
    \/ InitCrash
    \/ Restart
    \/ \E in \in RegInputsStartup : Register(Writer, in)
    \/ RegisterCommit(Writer)
    \/ \E in \in LoginInputsStartup : Login(Writer, in)
    \/ Logout(Writer)
    \/ \E upload \in UploadsStartup :
          \/ CreateReject(Writer, FormLamp, upload)
          \/ CreateBegin(Writer, FormLamp, upload)
    \/ CreateBeginCommit(Writer)
    \/ CreateLoop(Writer)
    \/ CreateSave(Writer)
    \/ CreateInsert(Writer)
    \/ CreateCommit(Writer)
    \/ CreateRespond(Writer)
    \/ \E p \in 1..MaxProducts :
          \/ DeleteReject(Writer, p)
          \/ DeleteBegin(Writer, p)
    \/ DeleteSelect(Writer)
    \/ DeleteRow(Writer)
    \/ DeleteCommit(Writer)
    \/ DeleteFiles(Writer)
    \/ DeleteDone(Writer)
    \/ ListBegin(Writer)
    \/ ListFinish(Writer)
    \/ Return(Writer)

InitStartup == InitWith(0, {})

SpecStartup == InitStartup /\ [][NextStartup]_vars

\* one browser posting every form, valid or not
UploadsForms == {<<>>, <<JpegA>>, <<JpegA, JpegA, JpegA, JpegA, JpegA, JpegA>>}

NextForms ==
    \/ Boot
    \/ \E in \in RegInputsStartup : Register(Writer, in)
    \/ RegisterCommit(Writer)
    \/ \E in \in LoginInputsStartup : Login(Writer, in)
    \/ Logout(Writer)
    \/ \E form \in Forms, upload \in UploadsForms :
          \/ CreateReject(Writer, form, upload)
          \/ CreateBegin(Writer, form, upload)
    \/ CreateBeginCommit(Writer)
    \/ CreateLoop(Writer)
    \/ CreateSave(Writer)
    \/ CreateInsert(Writer)
    \/ CreateCommit(Writer)
    \/ CreateRespond(Writer)
    \/ Return(Writer)

InitForms == InitWith(0, {})

SpecForms == InitForms /\ [][NextForms]_vars

\* two browsers of one seller whose requests are served by two threads at
\* the same time, each on its own connection
UploadsRace == {<<JpegA>>, <<JpegD, GifG>>}

NextRace ==
    \/ Boot
    \/ \E in \in LoginInputsStartup : Login(Reader, in)
    \/ \E c \in Clients :
          \/ \E in \in RegInputsStartup : Register(c, in)
          \/ RegisterCommit(c)
          \/ \E upload \in UploadsRace : CreateBegin(c, FormLamp, upload)
          \/ CreateBeginCommit(c)
          \/ CreateLoop(c)
          \/ CreateSave(c)
          \/ CreateInsert(c)
          \/ CreateCommit(c)
          \/ CreateRespond(c)
          \/ CreateRollback(c)
          \/ CreateRollbackCommit(c)
          \/ CreateCleanup(c)
          \/ CreateRefuse(c)
          \/ Busy(c)
          \/ \E p \in 1..MaxProducts : DeleteBegin(c, p)
          \/ DeleteSelect(c)
          \/ DeleteRow(c)
          \/ DeleteCommit(c)
          \/ DeleteFiles(c)
          \/ DeleteDone(c)
          \/ Return(c)

InitRace == InitWith(0, {})

SpecRace == InitRace /\ [][NextRace]_vars

\* ------------------------------------------------------------- properties
NoDuplicates(q) == \A i, j \in DOMAIN q : i # j => q[i] # q[j]

RowsOf(p) == {r \in product_images : r.product_id = p}
ProductIds == {p.id : p \in products}

\* a create_product call that has returned
CreateReturned(c) == cl[c].pc = "returned" /\ cl[c].op = "create"

\* the part the loop of create_product stood at when the call returned
PartAt(c) == cl[c].upload[cl[c].i]
StoppedAtPart(c) == cl[c].i \in 1..Len(cl[c].upload)

\* nothing of the call is left: its product row, its image rows, its files
NothingLeft(c) ==
    /\ cl[c].pid \notin ProductIds
    /\ RowsOf(cl[c].pid) = {}
    /\ Range(cl[c].saved) \cap DOMAIN files = {}

NoFaultYet == faults = MaxFaults

\* C1: a create_product call whose k-th image fails the format validation of
\* the intake has, once it returned, left no product row, no image row and
\* none of the k-1 files it stored (stated for runs in which no removal failed).
C1_AtomicRollback ==
    \A c \in Clients :
        ( /\ CreateReturned(c)
          /\ NoFaultYet
          /\ StoppedAtPart(c)
          /\ PartAt(c).name # ""
          /\ SniffChecked(PartAt(c)).exc # "none" )
        => NothingLeft(c)

\* C2: a create_product call that fails after its product row was inserted,
\* for whatever reason (here: the write of a valid image fails with OSError),
\* has deleted the row and its image rows and removed the files it wrote.
C2_RollbackOnAnyFailure ==
    \A c \in Clients :
        ( /\ CreateReturned(c)
          /\ cl[c].pid # 0
          /\ cl[c].code # 201
          /\ cl[c].err = "OSError" )
        => NothingLeft(c)

\* C3: when no call is in flight, the files of the uploads directory are
\* exactly the filenames of the product_images rows (stated for runs in which
\* no removal and no write failed).
C3_FilesMirrorRows ==
    ( /\ \A c \in Clients : cl[c].pc \in {"idle", "returned"}
      /\ NoFaultYet )
    => DOMAIN files = {r.filename : r \in product_images}

\* C4: a run of init_db after a completed one enters no step, raises nothing
\* and finds the schema and the ledger as the completed run left them; the
\* ledger never holds a version twice.
C4_IdempotentMigration ==
    /\ NoDuplicates(ledger)
    /\ doneRuns >= 1 => (schema = FullSchema /\ ledger = StepList)
    /\ (doneRuns >= 2 \/ (doneRuns = 1 /\ init.at # "done"))
          => (appliedNow = {} /\ ierr = "none" /\ init.at # "failed")

C4_Witness == doneRuns >= 2 /\ crashes >= 1

\* C6: init_db killed at any point, also between a step's DDL and its ledger
\* INSERT, and started again: no run raises, and a run that completes leaves
\* the full schema and each version recorded once, in order.
C6_CrashRetryConverges ==
    /\ init.at # "failed"
    /\ ierr = "none"
    /\ init.at = "done" => (schema = FullSchema /\ ledger = <<1, 2, 3, 4>>)
    /\ Len(ledger) = Cardinality(Range(ledger))

C6_Witness == gap /\ init.at = "done" /\ runs >= 2

\* the step of c is a step of its delete_product call
DeleteStep(c) ==
    /\ cl[c].op = "delete"
    /\ cl[c].pc \in {"select", "delete", "commit_delete", "unlink"}
    /\ cl'[c] # cl[c]

\* the image rows the commit of the DELETE removes by the cascade are the N
\* rows of the product, and their files are the ones the call goes on to remove
C7_Cascaded ==
    \A c \in Clients :
        (DeleteStep(c) /\ cl[c].pc = "commit_delete") =>
            /\ cl[c].pid \notin {x.id : x \in products'}
            /\ \A r \in product_images' : r.product_id # cl[c].pid
            /\ {r.filename : r \in RowsOf(cl[c].pid)} \subseteq Range(cl[c].saved)

\* the call answers 200 with the product row, its rows and its files gone
C7_Removed ==
    \A c \in Clients :
        (DeleteStep(c) /\ cl'[c].pc = "returned" /\ cl'[c].code = 200) =>
            /\ cl[c].pid \notin {x.id : x \in products'}
            /\ \A r \in product_images' : r.product_id # cl[c].pid
            /\ Range(cl[c].saved) \cap DOMAIN files' = {}

\* the rows of the other products and the files their rows name stay
C7_Others ==
    \A c \in Clients :
        DeleteStep(c) =>
            /\ \A x \in products : x.id # cl[c].pid => x \in products'
            /\ \A r \in product_images :
                  r.product_id # cl[c].pid =>
                      /\ r \in product_images'
                      /\ r.filename \in DOMAIN files =>
                            (r.filename \in DOMAIN files' /\ files'[r.filename] = files[r.filename])

\* C7: a successful delete_product of a product with N images removes the
\* product row, all N image rows of the product through the cascade, and the
\* N files those rows name; the rows and files of other products are not
\* touched.
C7_DeleteRemovesRowsAndFiles == [][C7_Cascaded /\ C7_Removed /\ C7_Others]_vars

\* the positions (from 0, as enumerate counts) of the parts that carry a file
NamedIdx(upload) ==
    SelectSeq([i \in 1..Len(upload) |-> i], LAMBDA i : upload[i].name # "")

C8_Created ==
    \A c \in Clients :
        (CreateReturned(c) /\ cl[c].code = 201) =>
            LET r == cl[c]
                idx == NamedIdx(r.upload)
            IN  /\ Len(r.saved) = Len(idx)
                /\ Cardinality(RowsOf(r.pid)) = Len(idx)
                /\ \A k \in DOMAIN idx :
                      /\ files[r.saved[k]] = r.upload[idx[k]]
                      /\ \E row \in RowsOf(r.pid) :
                            /\ row.filename = r.saved[k]
                            /\ row.sort_order = idx[k] - 1
                /\ ImagesOf(r.pid) = r.saved

C8_Listed ==
    \A c \in Clients :
        (cl[c].pc = "returned" /\ cl[c].op = "list") =>
            \A k \in DOMAIN cl[c].listing :
                LET e == cl[c].listing[k]
                    rows == RowsOf(e.id)
                IN  /\ Range(e.images) = {r.filename : r \in rows}
                    /\ \A a, b \in DOMAIN e.images :
                          a < b => \E ra, rb \in rows :
                                      /\ ra.filename = e.images[a]
                                      /\ rb.filename = e.images[b]
                                      /\ ra.sort_order < rb.sort_order

C8_Stable ==
    \A p \in 1..MaxProducts :
        (RowsOf(p) # {} /\ p \in {x.id : x \in products'}) =>
            {r \in product_images' : r.product_id = p} = RowsOf(p)

\* C8: after a successful create_product every image row has the position
\* of its image in the input as sort_order, the product's images ordered by
\* (sort_order, id) are the list the call returned, in input order; the rows
\* do not change while the product exists and list_products returns them in
\* that order.
C8_OrderPreserved == []C8_Created /\ []C8_Listed /\ [][C8_Stable]_vars

C8_Witness ==
    \E c \in Clients :
        /\ cl[c].pc = "returned" /\ cl[c].op = "list"
        /\ \E k \in DOMAIN cl[c].listing :
              /\ Len(cl[c].listing[k].images) = 2
              /\ files[cl[c].listing[k].images[1]] = PngB
              /\ files[cl[c].listing[k].images[2]] = JpegA

AllowedFormats == {"JPEG", "PNG", "WEBP"}

\* C9: no file is written for content that does not decode as JPEG, PNG or
\* WEBP, whatever its declared name, and such content is rejected with the
\* image-rejection error (the ValueError create_product answers with 400).
C9_SniffBeforeWrite ==
    /\ \A f \in DOMAIN files : files[f].fmt \in AllowedFormats
    /\ \A c \in Clients :
          ( /\ CreateReturned(c)
            /\ StoppedAtPart(c)
            /\ PartAt(c).name # ""
            /\ PartAt(c).fmt \notin AllowedFormats )
          => (cl[c].code = 400 /\ cl[c].err = "ValueError")

\* a list_products call that has returned
ListReturned(c) == cl[c].pc = "returned" /\ cl[c].op = "list"

\* a create_product call between the commit of its product row and the commit
\* of its image rows, or the end of its rollback
CreateInFlight(c) ==
    /\ cl[c].op = "create"
    /\ cl[c].pc \in {"loop", "save", "insert", "commit", "rollback", "commit_rollback", "cleanup"}

\* C10 as stated: a list_products that runs beside a create_product does not
\* return that call's product before the call's image rows are in place, nor
\* the product of a call that ends in failure.
C10_NoPartialProductListed ==
    \A c, d \in Clients :
        (ListReturned(c) /\ CreateInFlight(d)) =>
            \A k \in DOMAIN cl[c].listing : cl[c].listing[k].id # cl[d].pid

\* C10 amended: create_product commits its product row in a transaction of
\* its own and its image rows together in a second one, so a list_products
\* beside it can return the product without images, also the product of a
\* call that fails later, but never with a part of the call's images: the
\* image list of a listed product is empty or holds all its image rows, and
\* never a row of an open transaction.
C10_ImagesAllOrNone ==
    \A c \in Clients :
        ListReturned(c) =>
            \A k \in DOMAIN cl[c].listing :
                LET e == cl[c].listing[k]
                IN  /\ \A d \in Clients :
                          \A r \in Range(cl[d].tx) :
                              r.product_id = e.id => r.filename \notin Range(e.images)
                    /\ \/ e.images = <<>>
                       \/ RowsOf(e.id) = {}
                       \/ Range(e.images) = {r.filename : r \in RowsOf(e.id)}

C10_Witness ==
    \E c, d \in Clients :
        /\ ListReturned(c)
        /\ CreateInFlight(d)
        /\ cl[d].tx # <<>>
        /\ \E k \in DOMAIN cl[c].listing :
              cl[c].listing[k].id = cl[d].pid /\ cl[c].listing[k].images = <<>>

\* a seller row holding the normalized form of a raw whatsapp value
HasSeller(raw) == \E k \in DOMAIN sellers : sellers[k].whatsapp = normalize_whatsapp(raw)

C11_Unique ==
    \A i, j \in DOMAIN sellers :
        /\ normalize_whatsapp(sellers[i].whatsapp) = sellers[i].whatsapp
        /\ i # j => sellers[i].whatsapp # sellers[j].whatsapp

C11_Conflict ==
    /\ IsPrefix(sellers, sellers')
    /\ \A c \in Clients, in \in RegInputsTwo :
          (Register(c, in) /\ HasSeller(in.whatsapp)) =>
              /\ cl'[c].code \in {400, 409}
              /\ (Len(Strip(in.name)) >= 2 /\ IsDigits(Strip(in.pin))) => cl'[c].code = 409
              /\ sellers' = sellers
              /\ session' = session

\* C11: no two seller rows ever hold the same normalized whatsapp value; a
\* registration whose normalized whatsapp is that of an existing seller is
\* answered with 409 Conflict, inserts no row and leaves the rows of sellers
\* (and the session) as they were.
C11_SellerUniqueness == []C11_Unique /\ [][C11_Conflict]_vars

C11_Witness ==
    /\ Len(sellers) = 2
    /\ \E c \in Clients :
          cl[c].pc = "returned" /\ cl[c].code = 409 /\ session[c] = 2

\* the price field is a number >= 0
PriceInRange(form) ==
    ParsePrice(form).ok /\ ~ParsePrice(form).neg /\ ~ParsePrice(form).nan

\* a create_product call that breaks a precondition: no authenticated seller,
\* an empty name or details, a price that is no number >= 0, over 5 images
BreaksPrecondition(c) ==
    \/ session[c] = 0
    \/ StripField(cl[c].form, "name") = <<>>
    \/ StripField(cl[c].form, "details") = <<>>
    \/ ~PriceInRange(cl[c].form)
    \/ Len(cl[c].upload) > MaxImages

\* C12: a create_product call with no authenticated seller, an empty name,
\* empty details, a price that is missing, not a number or negative, or more
\* than 5 images returns a validation failure (401 or 400) and has inserted no
\* product row.
C12_ValidationWritesNothing ==
    \A c \in Clients :
        (CreateReturned(c) /\ BreaksPrecondition(c)) =>
            (cl[c].code \in {400, 401} /\ cl[c].pid = 0)

\* the caller is not the authenticated seller the product p belongs to
NotOwner(c, p) ==
    \/ session[c] = 0
    \/ \A x \in products : x.id = p => x.seller_id # session[c]

\* a delete_product call past its checks deletes a product of the caller
C13_Owner ==
    \A c \in Clients :
        cl[c].pc \in {"select", "delete", "commit_delete"} =>
            /\ session[c] # 0
            /\ \E x \in products : x.id = cl[c].pid /\ x.seller_id = session[c]

C13_Refused ==
    \A c \in Clients, p \in 1..MaxProducts :
        ((DeleteReject(c, p) \/ DeleteBegin(c, p)) /\ NotOwner(c, p)) =>
            /\ cl'[c].pc = "returned"
            /\ cl'[c].code =
                  (IF session[c] = 0 THEN 401
                   ELSE IF p \notin ProductIds THEN 404 ELSE 403)
            /\ UNCHANGED <<sellers, products, product_images, files>>

\* a product row leaves the table only by a delete_product of its owner, or
\* by the rollback of the create_product call that inserted it
C13_RemovedByOwner ==
    \A x \in products \ products' :
        \E c \in Clients :
            /\ cl[c].pid = x.id
            /\ x.seller_id = session[c]
            /\ cl[c].pc \in {"commit_delete", "commit_rollback"}

\* C13: delete_product removes a product only for the authenticated seller
\* whose id is the product's seller_id; a call for a missing product (404),
\* for another seller's product or a product of no seller (403) or without a
\* session (401) deletes no row and no file and leaves the store unchanged.
C13_OwnerOnlyDelete ==
    []C13_Owner /\ [][C13_Refused]_vars /\ [][C13_RemovedByOwner]_vars

C13_Witness ==
    \E c \in Clients :
        /\ cl[c].pc = "returned" /\ cl[c].op = "delete" /\ cl[c].code = 403
        /\ session[c] = 2
        /\ \E x \in products : x.id = cl[c].pid /\ x.seller_id = NULL
        /\ \E x \in products : x.seller_id = 1 /\ RowsOf(x.id) # {}

\* init_db has applied and recorded all four versions
MigrationComplete == ledger = StepList /\ schema = FullSchema

\* the store and the uploads directory hold nothing and no request was made
Untouched ==
    /\ sellers = <<>> /\ products = {} /\ product_images = {}
    /\ files = <<>>
    /\ \A c \in Clients : cl[c] = Idle /\ session[c] = 0

C14_NothingBefore == ~Untouched => (doneRuns >= 1 /\ MigrationComplete)

C14_OnlyWhenDone ==
    svars' # svars => (init.at = "done" /\ init'.at = "done" /\ MigrationComplete)

\* C14: no request (register, login, list_products, create_product,
\* delete_product) takes a step before init_db has returned with all four
\* versions applied and recorded, nor while a later start of the process is
\* still inside init_db.
C14_StartupBarrier == []C14_NothingBefore /\ [][C14_OnlyWhenDone]_vars

C14_Witness ==
    /\ crashes >= 1
    /\ runs >= 3
    /\ doneRuns >= 2
    /\ products # {}
    /\ \E c \in Clients : cl[c].pc = "returned" /\ cl[c].op = "list" /\ cl[c].listing # <<>>

\* the schema objects the DDL of a version creates
ObjectsOf(v) ==
    CASE v = 1 -> {"products"}
      [] v = 2 -> {"sellers", "idx_sellers_whatsapp"}
      [] v = 3 -> {"products.seller_id", "idx_products_seller_id"}
      [] v = 4 -> {"product_images", "idx_product_images_product_id"}

C15_Ledger ==
    /\ Range(ledger) \subseteq Range(StepList)
    /\ NoDuplicates(ledger)
    /\ \A i \in DOMAIN ledger : ledger[i] = i
    /\ \A v \in Range(ledger) : ObjectsOf(v) \subseteq schema
    /\ ledger # <<>> => "schema_migrations" \in schema

C15_AppendOnly ==
    /\ IsPrefix(ledger, ledger')
    /\ Len(ledger') <= Len(ledger) + 1
    /\ schema \subseteq schema'

\* C15: in every state, also inside init_db and after a kill, the ledger
\* holds only versions of the step list 1..4, each at most once and in
\* ascending order without a hole; it only grows, by one version at the end;
\* and the schema objects of every recorded version exist.
C15_LedgerInvariant == []C15_Ledger /\ [][C15_AppendOnly]_vars

C15_Witness ==
    /\ gap
    /\ runs >= 2
    /\ init.at = "fn"
    /\ Len(ledger) \in 1..3

\* the versions 1 .. v-1 in order
Below(v) == [i \in 1..(v - 1) |-> i]

\* init_db has stopped at a statement of step init.k: after its fn() was
\* entered (a failure of the ledger's CREATE TABLE or of the SELECT of the
\* gate comes before the step's action)
FailedInStep ==
    /\ init.at = "failed"
    /\ init.k \in DOMAIN StepList
    /\ StepAt(init.k) \in appliedNow

C16_Stops ==
    /\ init.at = "failed" => ierr # "none"
    /\ FailedInStep =>
          /\ ledger = Below(StepAt(init.k))
          /\ \A w \in Range(StepList) :
                w > StepAt(init.k) => (w \notin appliedNow /\ ObjectsOf(w) \cap schema = {})

C16_Retry ==
    /\ init.at = "failed" =>
          (init'.at = "begin" /\ ledger' = ledger /\ schema' = schema)
    /\ appliedNow' \notin {appliedNow, {}} =>
          (appliedNow' \ appliedNow = {Len(ledger) + 1} /\ ledger' = ledger)

\* C16: when a statement of step v fails, init_db stops with the exception:
\* v is not recorded, no higher version is applied or recorded, the versions
\* below v stay recorded; the run after it enters first the fn() of the first
\* unrecorded version, which is v, and the fn() of no recorded version.
C16_FailingStepAborts == []C16_Stops /\ [][C16_Retry]_vars

\* the second run enters fn() of step 3 first, after the second statement of
\* step 3 failed in the first run (its first statement has added the column)
C16_Witness ==
    /\ faults < MaxFaults
    /\ crashes = 0
    /\ runs = 2
    /\ init = At(3, "fn", 1)
    /\ appliedNow = {3}
    /\ ledger = Below(3)
    /\ "products.seller_id" \in schema
    /\ "idx_products_seller_id" \notin schema

\* a create_product call whose save_upload_image calls returned the names in saved
Storing(c) == cl[c].op = "create" /\ cl[c].saved # <<>>

\* C17: a save_upload_image call that has chosen its filename and is about to
\* write finds no file of that name; no two calls returned the same filename
\* and no two image rows name the same file; every stored file carries the
\* extension of the format its content decodes as.
C17_UniqueNoOverwrite ==
    /\ \A c \in Clients : cl[c].pc = "save" => cl[c].fname \notin DOMAIN files
    /\ \A c, d \in Clients :
          (c # d /\ Storing(c) /\ Storing(d)) =>
              Range(cl[c].saved) \cap Range(cl[d].saved) = {}
    /\ \A r, q \in product_images : r.filename = q.filename => r = q
    /\ \A f \in DOMAIN files : f.ext = SniffChecked(files[f]).ext

\* the step of c is one of the compensation of its failed create_product call
Compensates(c) ==
    /\ cl[c].op = "create"
    /\ cl[c].pc \in {"rollback", "commit_rollback", "cleanup"}
    /\ cl'[c] # cl[c]

C18_Frame ==
    \A c \in Clients :
        Compensates(c) =>
            /\ sellers' = sellers
            /\ \A x \in products : x.id # cl[c].pid => x \in products'
            /\ \A r \in product_images : r.product_id # cl[c].pid => r \in product_images'
            /\ \A f \in DOMAIN files :
                  \/ f \in DOMAIN files' /\ files'[f] = files[f]
                  \/ /\ f \in Range(cl[c].saved)
                     /\ \A r \in product_images' : r.filename # f

\* C18: the compensation of a failed create_product call (the DELETE of its
\* product row and the removal of the files it saved) leaves the seller rows,
\* the rows of every other product and the files of every other product as
\* they were: a file it removes is one the call saved and no row of another
\* product names it.
C18_RollbackFrame == [][C18_Frame]_vars

\* C19: in every state, also inside create_product, its rollback and
\* delete_product and after a file removal that failed, the filename of every
\* committed product_images row names a file of the uploads directory.
C19_NoDanglingRow == \A r \in product_images : r.filename \in DOMAIN files
====
